---- MODULE Spec2Model ----
(***************************************************************************)
(* Model of the deployment script src/index.js: the three concurrent       *)
(* start-up operations joined by Promise.all, the source-control step, the *)
(* main routine (planner), duplication of the base theme, the deploy       *)
(* trigger and the final cleanup.  Strings are TLA+ strings; the string    *)
(* operations of the script (split, indexOf, trim, replace, regex tests)   *)
(* are computed character by character.                                    *)
(***************************************************************************)
EXTENDS Integers, Sequences, FiniteSets, TLC

-----------------------------------------------------------------------------
(* Bounds of the model *)

\* longest theme list the store returns
MaxThemes == 3

-----------------------------------------------------------------------------
(* JavaScript string operations *)

Upper == "ABCDEFGHIJKLMNOPQRSTUVWXYZ"
Lower == "abcdefghijklmnopqrstuvwxyz"

CharAt(s, i) == SubSeq(s, i, i)

UpperChars == { CharAt(Upper, i) : i \in 1..Len(Upper) }

LowerOf ==
  [c \in UpperChars |->
     CharAt(Lower, CHOOSE i \in 1..Len(Upper) : CharAt(Upper, i) = c)]

\* one character, lower-cased (the /i flag of a regular expression)
LowerChar(c) == IF c \in UpperChars THEN LowerOf[c] ELSE c

RECURSIVE ToLower(_)
ToLower(s) ==
  IF Len(s) = 0 THEN ""
  ELSE LowerChar(CharAt(s, 1)) \o ToLower(SubSeq(s, 2, Len(s)))

\* the 1-based positions at which sub occurs in s
Occurrences(s, sub) ==
  { i \in 1..(Len(s) - Len(sub) + 1) : SubSeq(s, i, i + Len(sub) - 1) = sub }

Min(S) == CHOOSE m \in S : \A n \in S : m <= n
Max(S) == CHOOSE m \in S : \A n \in S : m >= n

\* String.prototype.indexOf: 0-based position of the first occurrence, or -1
IndexOf(s, sub) ==
  LET occ == Occurrences(s, sub)
  IN  IF occ = {} THEN -1 ELSE Min(occ) - 1

\* the idiom ~s.indexOf(sub): truthy unless indexOf returned -1
Includes(s, sub) == IndexOf(s, sub) # -1

\* String.prototype.split with a non-empty separator
RECURSIVE Split(_, _)
Split(s, sep) ==
  LET at == IndexOf(s, sep)
  IN  IF at = -1 THEN <<s>>
      ELSE <<SubSeq(s, 1, at)>>
           \o Split(SubSeq(s, at + Len(sep) + 1, Len(s)), sep)

IsSpace(c) == c \in {" ", "\n", "\t"}

\* String.prototype.trim
Trim(s) ==
  LET keep == { i \in 1..Len(s) : ~IsSpace(CharAt(s, i)) }
  IN  IF keep = {} THEN "" ELSE SubSeq(s, Min(keep), Max(keep))

\* s.replace(sub, ''): the first occurrence of a literal removed
RemoveFirst(s, sub) ==
  LET at == IndexOf(s, sub)
  IN  IF at = -1 THEN s
      ELSE SubSeq(s, 1, at) \o SubSeq(s, at + Len(sub) + 1, Len(s))

\* /a|b|c/.test(s) for literal alternatives
TestAny(s, alts) == \E a \in alts : Includes(s, a)

\* /a|b|c/i.test(s) for lower-case literal alternatives
TestAnyI(s, alts) == TestAny(ToLower(s), alts)


-----------------------------------------------------------------------------
(* Values of the run *)

\* "no value": undefined, or the initial false of a reduce
NoTheme == [id |-> 0, name |-> "", role |-> "", updated_at |-> 0]

\* the day on which the run takes place (moment()); timestamps are in days
Now == 20

\* moment().subtract('7', 'Days')
StaleDays == 7

\* themes the store may hold (id, name, role, updated_at)
ThemePool ==
  { [id |-> 1, name |-> "DEV - x",           role |-> "main",        updated_at |-> Now - 1],
    [id |-> 2, name |-> "LIVE - y",          role |-> "main",        updated_at |-> Now - 2],
    [id |-> 3, name |-> "STAGE - fix (a1)",  role |-> "unpublished", updated_at |-> Now - 6],
    [id |-> 4, name |-> "STAGE - old (a1)",  role |-> "unpublished", updated_at |-> Now - 8],
    [id |-> 5, name |-> "STAGE",             role |-> "unpublished", updated_at |-> Now - 3],
    [id |-> 6, name |-> "STAGE - label",     role |-> "unpublished", updated_at |-> Now - 3],
    [id |-> 7, name |-> "STAGING - z (b2)",  role |-> "unpublished", updated_at |-> Now - 7] }

\* the id themekit writes to tmp/config.yml for a theme it has just created
NewThemeId == 9

\* a theme_id left in tmp/config.yml by an earlier run
StaleThemeId == 4

Range(seq) == { seq[i] : i \in 1..Len(seq) }

\* bodies of GET /admin/themes.json: lists of distinct themes, one published
\* theme at most, in any order
ThemeResponses ==
  { r \in UNION { [1..n -> ThemePool] : n \in 0..MaxThemes } :
      /\ \A i, j \in 1..Len(r) : i # j => r[i].id # r[j].id
      /\ Cardinality({ i \in 1..Len(r) : r[i].role = "main" }) <= 1 }

\* stdout of `git branch`
BranchStdouts ==
  { "* develop\n  master\n",
    "* Develop\n",
    "  develop\n* feature/x\n  master\n",
    "* hotfix/master-x\n",
    "* bugfix/develop-y\n",
    "* master\n",
    "  develop\n* release\n" }

\* stdout of `git cherry -v <base>`
CherryStdouts ==
  { "",
    "+ a1 fix\n",
    "+ c3 label tweak\n- b2 z\n" }

StageValues == { "backup", "deploy", "other" }

\* process.env.BASE_THEME; the empty string is the unset variable
BaseThemeValues == { "", "3" }

-----------------------------------------------------------------------------
(* Pure functions of the script *)

\* '' + n for the ids of the model
NumStr(n) == CharAt("0123456789", n + 1)

\* Array.prototype.find, given the positions the callback accepts; NoTheme
\* stands for undefined
Find(seq, hits) == IF hits = {} THEN NoTheme ELSE seq[Min(hits)]

\* the positions of a list
Idx(seq) == 1..Len(seq)

\* x put into a list sorted by descending updated_at, after its equals
SortInsert(sorted, x) ==
  LET before == { i \in 1..Len(sorted) : sorted[i].updated_at >= x.updated_at }
      k == IF before = {} THEN 0 ELSE Max(before)
  IN  SubSeq(sorted, 1, k) \o <<x>> \o SubSeq(sorted, k + 1, Len(sorted))

\* themes.sort((a, b) => new Date(b.updated_at) - new Date(a.updated_at))
RECURSIVE sortThemes(_)
sortThemes(themes) ==
  IF Len(themes) = 0 THEN <<>>
  ELSE SortInsert(sortThemes(SubSeq(themes, 1, Len(themes) - 1)),
                  themes[Len(themes)])

\* the active branch out of the stdout of `git branch`
activeBranch(stdout) ==
  LET lines == Split(stdout, "\n")
      marked == { i \in 1..Len(lines) : Includes(lines[i], "*") }
  IN  IF marked = {} THEN ""
      ELSE Trim(RemoveFirst(lines[Min(marked)], "* "))

\* commit.replace(/[+-] ?/, '')
stripMarker(line) ==
  LET at == { i \in 1..Len(line) : CharAt(line, i) \in {"+", "-"} }
      i == Min(at)
      n == IF i < Len(line) /\ CharAt(line, i + 1) = " " THEN 2 ELSE 1
  IN  IF at = {} THEN line
      ELSE SubSeq(line, 1, i - 1) \o SubSeq(line, i + n, Len(line))

\* the commit list out of the stdout of `git cherry -v`
parseCommits(stdout) ==
  LET lines == Split(stdout, "\n")
  IN  SelectSeq([i \in 1..Len(lines) |-> Trim(stripMarker(lines[i]))],
                LAMBDA c : c # "")

\* gitBase with the two branches of the conditional exchanged
gitBase_Inverted(branch) ==
  IF TestAny(branch, {"develop"}) THEN "develop" ELSE "master"

\* const gitBase = /develop/.test(branch) ? 'master' : 'develop'
gitBase(branch) == IF TestAny(branch, {"develop"}) THEN "master" ELSE "develop"

\* let [env = 'DEV', commit = ''] = name.split(' - ')
envOf(name) == Split(name, " - ")[1]

commitPart(name) ==
  LET parts == Split(name, " - ")
  IN  IF Len(parts) >= 2 THEN parts[2] ELSE ""

\* commit.match(/.*[(](.*)[)]/): the positions of the "(" the greedy match
\* settles on are those followed by a ")"
matchOpens(c) ==
  { i \in 1..Len(c) : CharAt(c, i) = "("
                      /\ \E j \in (i + 1)..Len(c) : CharAt(c, j) = ")" }

\* the commit token of a theme name; "throw" when match() returns null
commitOf(name) ==
  LET c == commitPart(name)
      opens == matchOpens(c)
  IN  IF ~Includes(c, "(") THEN [status |-> "ok", token |-> c]
      ELSE IF opens = {} THEN [status |-> "throw", token |-> ""]
      ELSE [status |-> "ok",
            token  |-> SubSeq(c, Max(opens) + 1,
                              Max({ j \in 1..Len(c) : CharAt(c, j) = ")" }) - 1)]

\* isStale with the limit a day late
isStale_OffByOne(theme) == theme.updated_at < Now - StaleDays - 1

\* themeDate.isBefore(moment().subtract('7', 'Days'))
isStale(theme) == theme.updated_at < Now - StaleDays

\* reduceStep in which a later qualifying theme replaces the one found
reduceStep_KeepsLast(isFound, theme, commits, noLessThan7DaysOld) ==
  LET commit == commitOf(theme.name)
  IN
  IF isFound.status = "throw" THEN isFound
  ELSE IF commit.status = "throw"
       THEN [status |-> "throw", theme |-> NoTheme]
  ELSE IF ~TestAnyI(envOf(theme.name), {"staging", "stage"})
       THEN isFound
  ELSE IF ~\E i \in 1..Len(commits) : Includes(commits[i], commit.token)
       THEN isFound
  ELSE IF noLessThan7DaysOld /\ isStale(theme)
       THEN isFound
  ELSE [status |-> "found", theme |-> theme]

\* one call of the reducer of isAlreadyDeployedThemeForBranch
reduceStep(isFound, theme, commits, noLessThan7DaysOld) ==
  LET commit == commitOf(theme.name)
  IN
  IF isFound.status # "none" THEN isFound
  ELSE IF commit.status = "throw"
       THEN [status |-> "throw", theme |-> NoTheme]
  ELSE IF ~TestAnyI(envOf(theme.name), {"staging", "stage"})
       THEN [status |-> "none", theme |-> NoTheme]
  ELSE IF ~\E i \in 1..Len(commits) : Includes(commits[i], commit.token)
       THEN [status |-> "none", theme |-> NoTheme]
  ELSE IF noLessThan7DaysOld /\ isStale(theme)
       THEN [status |-> "none", theme |-> NoTheme]
  ELSE [status |-> "found", theme |-> theme]

RECURSIVE reduceThemes(_, _, _, _)
reduceThemes(themes, n, commits, noLessThan7DaysOld) ==
  IF n = 0 THEN [status |-> "none", theme |-> NoTheme]
  ELSE reduceStep(reduceThemes(themes, n - 1, commits, noLessThan7DaysOld),
                  themes[n], commits, noLessThan7DaysOld)

isAlreadyDeployedThemeForBranch(themes, branch, commits, noLessThan7DaysOld) ==
  reduceThemes(themes, Len(themes), commits, noLessThan7DaysOld)

\* getBase without the search for an unpublished live or stage theme
getBase_PublishedOnly(themes, forcePublished, baseTheme) ==
  LET publishedTheme ==
        Find(themes, { i \in Idx(themes) : themes[i].role = "main" })
  IN  IF publishedTheme = NoTheme
        THEN [kind |-> "throw", theme |-> NoTheme]
      ELSE IF baseTheme # ""
        THEN [kind  |-> "value",
              theme |-> Find(themes, { i \in Idx(themes) :
                                         NumStr(themes[i].id) = baseTheme })]
      ELSE [kind |-> "promise", theme |-> publishedTheme]

\* getBase: kind is "promise" for Promise.resolve(theme), "value" for a bare
\* return, "throw" for a TypeError, "exit" for process.exit()
getBase(themes, forcePublished, baseTheme) ==
  LET publishedTheme ==
        Find(themes, { i \in Idx(themes) : themes[i].role = "main" })
      isBase(t) == TestAnyI(envOf(t.name), {"live", "stage"})
      unpublishedBase ==
        Find(themes, { i \in Idx(themes) : isBase(themes[i]) })
  IN  IF publishedTheme = NoTheme
        THEN [kind |-> "throw", theme |-> NoTheme]
      ELSE IF baseTheme # ""
        THEN [kind  |-> "value",
              theme |-> Find(themes, { i \in Idx(themes) :
                                         NumStr(themes[i].id) = baseTheme })]
      ELSE IF forcePublished
        THEN [kind |-> "promise", theme |-> publishedTheme]
      ELSE IF isBase(publishedTheme)
        THEN [kind |-> "promise", theme |-> publishedTheme]
      ELSE IF unpublishedBase = NoTheme
        THEN [kind |-> "exit", theme |-> NoTheme]
      ELSE [kind |-> "promise", theme |-> unpublishedBase]

\* what each stdout of `git branch` resolves the promise with
BranchResults ==
  { [stdout |-> s, active |-> activeBranch(s)] : s \in BranchStdouts }

\* what each response body leaves in themes
ListingResults ==
  { [response |-> r, themes |-> sortThemes(r)] : r \in ThemeResponses }

\* what each stdout of `git cherry -v` leaves in commits
CherryResults ==
  { [stdout |-> s, commits |-> parseCommits(s)] : s \in CherryStdouts }

\* isPathA without the word hotfix
isPathA_NoHotfix(branch) == TestAnyI(branch, {"feature", "bugfix", "develop"})

\* the branch tests of the main routine
isPathA(branch) == TestAnyI(branch, {"feature", "hotfix", "bugfix", "develop"})
isMaster(branch) == TestAnyI(branch, {"master"})
isDevelop(branch) == TestAny(branch, {"develop"})

-----------------------------------------------------------------------------
(* State *)

VARIABLES
  STAGE,          \* process.env.STAGE || 'backup'
  IS_QUICK_TEST,  \* process.env.IS_QUICK_TEST || false
  BASE_THEME,     \* process.env.BASE_THEME || false ("" is false)
  tmpExists,      \* whether TMP_DIR exists on disk
  configYml,      \* development.theme_id of TMP_DIR/config.yml, 0 if no file
  cwd,            \* working directory of the process: "root" or "tmp"
  prep,           \* the workspace promise (lines 55-73)
  gitBranch,      \* the `git branch` promise (lines 81-102)
  listing,        \* the theme request promise (lines 110-123)
  branch,         \* the active branch, once known
  themes,         \* the sorted theme list, once known
  commits,        \* the commits of the branch, once known
  pc,             \* position of the promise chain
  fetchErr,       \* whether `git fetch --all` has rejected the step's promise
  cherryErr,      \* whether `git cherry -v` exited with an error
  plan,           \* the branch the main routine took
  existingTheme,  \* what isAlreadyDeployedThemeForBranch resolved with
  base,           \* the theme duplicateCurrentBase downloads
  themeID,        \* the value handed on to buildAndDeploy
  deployArg,      \* defaults.theme_id of the brrl call
  downloadArg,    \* themeId of the themekit download
  cherryBase,     \* the base of `git cherry -v`
  error,          \* the error the chain was rejected with
  calls,          \* the commands and calls made so far, in order
  parsed          \* a theme name and the env and commit the reducer reads
                  \* from it (lines 220-229), when followed on its own

vars == << STAGE, IS_QUICK_TEST, BASE_THEME, tmpExists, configYml, cwd, prep,
           gitBranch, listing, branch, themes, commits, pc, fetchErr,
           cherryErr, plan, existingTheme, base, themeID, deployArg,
           downloadArg, cherryBase, error, calls, parsed >>

env == << STAGE, IS_QUICK_TEST, BASE_THEME >>

NoValue == [kind |-> "none", id |-> 0]

\* a theme id as a value, and a whole theme object as a value
IdValue(n) == [kind |-> "id", id |-> n]
ThemeValue(t) == [kind |-> "theme", id |-> t.id]

\* no theme name is being followed
NoParse == [name |-> "", status |-> "idle", env |-> "", commit |-> ""]

Init ==
  /\ STAGE \in StageValues
  /\ IS_QUICK_TEST \in BOOLEAN
  /\ BASE_THEME \in BaseThemeValues
  /\ tmpExists \in BOOLEAN
  /\ configYml \in (IF tmpExists THEN {0, StaleThemeId} ELSE {0})
  /\ cwd = "root"
  /\ prep = "idle"
  /\ gitBranch = "idle"
  /\ listing = "idle"
  /\ branch = ""
  /\ themes = <<>>
  /\ commits = <<>>
  /\ pc = "start"
  /\ fetchErr = FALSE
  /\ cherryErr = FALSE
  /\ plan = ""
  /\ existingTheme = NoTheme
  /\ base = NoTheme
  /\ themeID = NoValue
  /\ deployArg = NoValue
  /\ downloadArg = 0
  /\ cherryBase = ""
  /\ error = ""
  /\ calls = <<>>
  /\ parsed = NoParse

-----------------------------------------------------------------------------
(* The three concurrent operations and their join *)

\* the synchronous top level: the three operations are started
Start ==
  /\ pc = "start"
  /\ pc' = "join"
  /\ IF tmpExists /\ ~IS_QUICK_TEST
       THEN /\ prep' = "removing"
            /\ calls' = calls \o <<"rm", "git branch", "request">>
       ELSE /\ prep' = "removed"
            /\ calls' = calls \o <<"git branch", "request">>
  /\ gitBranch' = "running"
  /\ listing' = "running"
  /\ UNCHANGED << env, parsed, tmpExists, configYml, cwd, branch, themes,
                  commits, fetchErr, cherryErr, plan, existingTheme, base,
                  themeID, deployArg, downloadArg, cherryBase, error >>

\* callback of exec(`rm -r ${TMP_DIR}`) of the workspace promise
RmDone ==
  /\ prep = "removing"
  /\ \E err \in BOOLEAN :
       IF err
         THEN /\ prep' = "rejected"
              /\ UNCHANGED << tmpExists, configYml >>
         ELSE /\ prep' = "removed"
              /\ tmpExists' = FALSE
              /\ configYml' = 0
  /\ UNCHANGED << env, parsed, cwd, gitBranch, listing, branch, themes,
                  commits, pc, fetchErr, cherryErr, plan, existingTheme, base,
                  themeID, deployArg, downloadArg, cherryBase, error, calls >>

\* PrepThen without the quick-test check before mkdirSync
PrepThen_AlwaysMkdir ==
  /\ prep = "removed"
  /\ tmpExists' = TRUE
  /\ prep' = "resolved"
  /\ cwd' = "tmp"
  /\ calls' = calls \o <<"mkdir", "chdir">>
  /\ UNCHANGED << env, parsed, configYml, gitBranch, listing, branch, themes,
                  commits, pc, fetchErr, cherryErr, plan, existingTheme, base,
                  themeID, deployArg, downloadArg, cherryBase, error >>

\* .then of the workspace promise: mkdirSync and process.chdir(TMP_DIR)
PrepThen ==
  /\ prep = "removed"
  /\ tmpExists' = (tmpExists \/ ~IS_QUICK_TEST)
  /\ IF tmpExists'
       THEN /\ prep' = "resolved"
            /\ cwd' = "tmp"
       ELSE /\ prep' = "rejected"
            /\ cwd' = cwd
  /\ calls' = calls \o (IF IS_QUICK_TEST THEN <<>> ELSE <<"mkdir">>)
                    \o <<"chdir">>
  /\ UNCHANGED << env, parsed, configYml, gitBranch, listing, branch, themes,
                  commits, pc, fetchErr, cherryErr, plan, existingTheme, base,
                  themeID, deployArg, downloadArg, cherryBase, error >>

\* callback of exec('git branch')
GitBranchDone ==
  /\ gitBranch = "running"
  /\ \E err \in BOOLEAN, out \in BranchResults :
       IF err
         THEN /\ gitBranch' = "rejected"
              /\ branch' = branch
         ELSE /\ gitBranch' = "resolved"
              /\ branch' = out.active
  /\ UNCHANGED << env, parsed, tmpExists, configYml, cwd, prep, listing,
                  themes, commits, pc, fetchErr, cherryErr, plan,
                  existingTheme, base, themeID, deployArg, downloadArg,
                  cherryBase, error, calls >>

\* the request settles; its .then parses and sorts the themes
RequestDone ==
  /\ listing = "running"
  /\ \E err \in BOOLEAN, out \in ListingResults :
       IF err
         THEN /\ listing' = "rejected"
              /\ themes' = themes
         ELSE /\ listing' = "resolved"
              /\ themes' = out.themes
  /\ UNCHANGED << env, parsed, tmpExists, configYml, cwd, prep, gitBranch,
                  branch, commits, pc, fetchErr, cherryErr, plan,
                  existingTheme, base, themeID, deployArg, downloadArg,
                  cherryBase, error, calls >>

\* Promise.all is rejected by the first of the three to reject
JoinReject ==
  /\ pc = "join"
  /\ "rejected" \in {prep, gitBranch, listing}
  /\ pc' = "rejected"
  /\ error' = "join"
  /\ UNCHANGED << env, parsed, tmpExists, configYml, cwd, prep, gitBranch,
                  listing, branch, themes, commits, fetchErr, cherryErr, plan,
                  existingTheme, base, themeID, deployArg, downloadArg,
                  cherryBase, calls >>

\* JoinResolve that does not wait for the workspace promise
JoinResolve_WithoutPrep ==
  /\ pc = "join"
  /\ gitBranch = "resolved" /\ listing = "resolved"
  /\ pc' = "fetching"
  /\ calls' = Append(calls, "git fetch")
  /\ UNCHANGED << env, parsed, tmpExists, configYml, cwd, prep, gitBranch,
                  listing, branch, themes, commits, fetchErr, cherryErr, plan,
                  existingTheme, base, themeID, deployArg, downloadArg,
                  cherryBase, error >>

\* Promise.all resolves; its .then starts `git fetch --all`
JoinResolve ==
  /\ pc = "join"
  /\ prep = "resolved" /\ gitBranch = "resolved" /\ listing = "resolved"
  /\ pc' = "fetching"
  /\ calls' = Append(calls, "git fetch")
  /\ UNCHANGED << env, parsed, tmpExists, configYml, cwd, prep, gitBranch,
                  listing, branch, themes, commits, fetchErr, cherryErr, plan,
                  existingTheme, base, themeID, deployArg, downloadArg,
                  cherryBase, error >>

-----------------------------------------------------------------------------
(* The source-control step *)

\* callback of exec(`git fetch --all`): reject on error, then `git cherry`
FetchDone ==
  /\ pc = "fetching"
  /\ \E err \in BOOLEAN :
       /\ fetchErr' = err
       /\ error' = IF err THEN "git fetch" ELSE error
  /\ cherryBase' = gitBase(branch)
  /\ calls' = Append(calls, "git cherry")
  /\ pc' = "cherry"
  /\ UNCHANGED << env, parsed, tmpExists, configYml, cwd, prep, gitBranch,
                  listing, branch, themes, commits, cherryErr, plan,
                  existingTheme, base, themeID, deployArg, downloadArg >>

\* callback of exec(`git cherry -v ${gitBase}`): err is not looked at
CherryDone ==
  /\ pc = "cherry"
  /\ \E err \in BOOLEAN, out \in CherryResults :
       /\ cherryErr' = err
       /\ commits' = IF err THEN parseCommits("") ELSE out.commits
  /\ pc' = IF fetchErr THEN "rejected" ELSE "main"
  /\ UNCHANGED << env, parsed, tmpExists, configYml, cwd, prep, gitBranch,
                  listing, branch, themes, fetchErr, plan, existingTheme,
                  base, themeID, deployArg, downloadArg, cherryBase, error,
                  calls >>

-----------------------------------------------------------------------------
(* The main routine, duplication, deploy and cleanup *)

\* the chain is rejected with e; no later .then callback runs
Reject(e) == pc' = "rejected" /\ error' = e

\* lines 154-203, up to the first promise each branch returns
MainRoutine ==
  /\ pc = "main"
  /\ IF isPathA(branch)
       THEN LET found ==
                  isAlreadyDeployedThemeForBranch(themes, branch, commits,
                                                  isDevelop(branch))
            IN  /\ plan' = "A"
                /\ calls' = Append(calls, "isAlreadyDeployedThemeForBranch")
                /\ existingTheme' = found.theme
                /\ CASE found.status = "throw" ->
                          Reject("TypeError") /\ themeID' = themeID
                     [] found.status = "found" ->
                          /\ themeID' = IdValue(found.theme.id)
                          /\ pc' = "deploy"
                          /\ error' = error
                     [] OTHER ->
                          /\ themeID' = themeID
                          /\ pc' = "duplicate"
                          /\ error' = error
     ELSE IF isMaster(branch) /\ STAGE = "backup"
       THEN /\ plan' = "backup"
            /\ pc' = "duplicate"
            /\ UNCHANGED << existingTheme, themeID, error, calls >>
     ELSE IF isMaster(branch) /\ STAGE = "deploy"
       THEN LET got == getBase(themes, TRUE, BASE_THEME)
            IN  /\ plan' = "deploy"
                /\ calls' = Append(calls, "getBase")
                /\ existingTheme' = existingTheme
                /\ IF got.kind = "promise"
                     THEN /\ themeID' = ThemeValue(got.theme)
                          /\ pc' = "deploy"
                          /\ error' = error
                     ELSE Reject("TypeError") /\ themeID' = themeID
     ELSE /\ plan' = "none"
          /\ pc' = "cleanup"
          /\ UNCHANGED << existingTheme, themeID, error, calls >>
  /\ UNCHANGED << env, parsed, tmpExists, configYml, cwd, prep, gitBranch,
                  listing, branch, themes, commits, fetchErr, cherryErr, base,
                  deployArg, downloadArg, cherryBase >>

\* DuplicateCurrentBase with a getBase that returns after its error message
\* instead of ending the process: downloadTheme then reads the id of undefined
DuplicateCurrentBase_NoExit ==
  /\ pc = "duplicate"
  /\ LET got == getBase(themes, plan = "backup", BASE_THEME)
     IN  CASE got.kind = "promise" ->
                /\ base' = got.theme
                /\ error' = error
                /\ IF IS_QUICK_TEST
                     THEN /\ pc' = "upload"
                          /\ calls' = calls \o <<"getBase", "downloadTheme">>
                          /\ downloadArg' = downloadArg
                     ELSE /\ pc' = "downloading"
                          /\ calls' = calls \o <<"getBase", "downloadTheme",
                                                 "download">>
                          /\ downloadArg' = got.theme.id
          [] got.kind = "exit" ->
                /\ Reject("TypeError")
                /\ calls' = calls \o <<"getBase", "downloadTheme">>
                /\ UNCHANGED << base, downloadArg >>
          [] OTHER ->
                /\ Reject("TypeError")
                /\ calls' = Append(calls, "getBase")
                /\ UNCHANGED << base, downloadArg >>
  /\ UNCHANGED << env, parsed, tmpExists, configYml, cwd, prep, gitBranch,
                  listing, branch, themes, commits, fetchErr, cherryErr, plan,
                  existingTheme, themeID, deployArg, cherryBase >>

\* duplicateCurrentBase: getBase, then downloadTheme up to the themekit call
DuplicateCurrentBase ==
  /\ pc = "duplicate"
  /\ LET got == getBase(themes, plan = "backup", BASE_THEME)
     IN  CASE got.kind = "promise" ->
                /\ base' = got.theme
                /\ error' = error
                /\ IF IS_QUICK_TEST
                     THEN /\ pc' = "upload"
                          /\ calls' = calls \o <<"getBase", "downloadTheme">>
                          /\ downloadArg' = downloadArg
                     ELSE /\ pc' = "downloading"
                          /\ calls' = calls \o <<"getBase", "downloadTheme",
                                                 "download">>
                          /\ downloadArg' = got.theme.id
          [] got.kind = "exit" ->
                /\ pc' = "exited"
                /\ calls' = Append(calls, "getBase")
                /\ UNCHANGED << base, error, downloadArg >>
          [] OTHER ->
                /\ Reject("TypeError")
                /\ calls' = Append(calls, "getBase")
                /\ UNCHANGED << base, downloadArg >>
  /\ UNCHANGED << env, parsed, tmpExists, configYml, cwd, prep, gitBranch,
                  listing, branch, themes, commits, fetchErr, cherryErr, plan,
                  existingTheme, themeID, deployArg, cherryBase >>

\* DownloadDone without the .catch: the error of themekit is passed on
DownloadDone_NoRewrap ==
  /\ pc = "downloading"
  /\ \E err \in BOOLEAN :
       IF err THEN Reject("themekit download")
              ELSE pc' = "upload" /\ error' = error
  /\ UNCHANGED << env, parsed, tmpExists, configYml, cwd, prep, gitBranch,
                  listing, branch, themes, commits, fetchErr, cherryErr, plan,
                  existingTheme, base, themeID, deployArg, downloadArg,
                  cherryBase, calls >>

\* themeKit.command('download') settles; .catch rewraps a failure
DownloadDone ==
  /\ pc = "downloading"
  /\ \E err \in BOOLEAN :
       IF err THEN Reject("Themekit download failed")
              ELSE pc' = "upload" /\ error' = error
  /\ UNCHANGED << env, parsed, tmpExists, configYml, cwd, prep, gitBranch,
                  listing, branch, themes, commits, fetchErr, cherryErr, plan,
                  existingTheme, base, themeID, deployArg, downloadArg,
                  cherryBase, calls >>

\* uploadBaseToNewTheme up to the themekit call
UploadBaseToNewTheme ==
  /\ pc = "upload"
  /\ IF IS_QUICK_TEST
       THEN /\ pc' = "readConfig"
            /\ calls' = Append(calls, "uploadBaseToNewTheme")
       ELSE /\ pc' = "creating"
            /\ calls' = calls \o <<"uploadBaseToNewTheme", "new">>
  /\ UNCHANGED << env, parsed, tmpExists, configYml, cwd, prep, gitBranch,
                  listing, branch, themes, commits, fetchErr, cherryErr, plan,
                  existingTheme, base, themeID, deployArg, downloadArg,
                  cherryBase, error >>

\* themeKit.command('new') settles; it has written config.yml on success
CreateDone ==
  /\ pc = "creating"
  /\ \E err \in BOOLEAN :
       IF err THEN Reject("themekit new") /\ configYml' = configYml
              ELSE /\ pc' = "readConfig"
                   /\ configYml' = NewThemeId
                   /\ error' = error
  /\ UNCHANGED << env, parsed, tmpExists, cwd, prep, gitBranch, listing,
                  branch, themes, commits, fetchErr, cherryErr, plan,
                  existingTheme, base, themeID, deployArg, downloadArg,
                  cherryBase, calls >>

\* ReadConfig handing on the id of the base instead of the new theme's
ReadConfig_ReturnsBase ==
  /\ pc = "readConfig"
  /\ calls' = Append(calls, "readConfig")
  /\ IF configYml = 0
       THEN Reject("ENOENT") /\ themeID' = themeID
       ELSE /\ themeID' = IdValue(base.id)
            /\ pc' = IF plan = "A" THEN "deploy" ELSE "cleanup"
            /\ error' = error
  /\ UNCHANGED << env, parsed, tmpExists, configYml, cwd, prep, gitBranch,
                  listing, branch, themes, commits, fetchErr, cherryErr, plan,
                  existingTheme, base, deployArg, downloadArg, cherryBase >>

\* ReadConfig followed by the deploy on every branch
ReadConfig_AlwaysDeploys ==
  /\ pc = "readConfig"
  /\ calls' = Append(calls, "readConfig")
  /\ IF configYml = 0
       THEN Reject("ENOENT") /\ themeID' = themeID
       ELSE /\ themeID' = IdValue(configYml)
            /\ pc' = "deploy"
            /\ error' = error
  /\ UNCHANGED << env, parsed, tmpExists, configYml, cwd, prep, gitBranch,
                  listing, branch, themes, commits, fetchErr, cherryErr, plan,
                  existingTheme, base, deployArg, downloadArg, cherryBase >>

\* .then of uploadBaseToNewTheme: theme_id read from TMP_DIR/config.yml,
\* then the .then of the caller
ReadConfig ==
  /\ pc = "readConfig"
  /\ calls' = Append(calls, "readConfig")
  /\ IF configYml = 0
       THEN Reject("ENOENT") /\ themeID' = themeID
       ELSE /\ themeID' = IdValue(configYml)
            /\ pc' = IF plan = "A" THEN "deploy" ELSE "cleanup"
            /\ error' = error
  /\ UNCHANGED << env, parsed, tmpExists, configYml, cwd, prep, gitBranch,
                  listing, branch, themes, commits, fetchErr, cherryErr, plan,
                  existingTheme, base, deployArg, downloadArg, cherryBase >>

\* buildAndDeploy: chdir to the project root, then brrl
BuildAndDeploy ==
  /\ pc = "deploy"
  /\ cwd' = "root"
  /\ deployArg' = themeID
  /\ calls' = calls \o <<"chdir", "deploy">>
  /\ pc' = "deploying"
  /\ UNCHANGED << env, parsed, tmpExists, configYml, prep, gitBranch, listing,
                  branch, themes, commits, fetchErr, cherryErr, plan,
                  existingTheme, base, themeID, downloadArg, cherryBase,
                  error >>

\* the promise of brrl settles
DeployDone ==
  /\ pc = "deploying"
  /\ \E err \in BOOLEAN :
       IF err THEN Reject("deploy") ELSE pc' = "cleanup" /\ error' = error
  /\ UNCHANGED << env, parsed, tmpExists, configYml, cwd, prep, gitBranch,
                  listing, branch, themes, commits, fetchErr, cherryErr, plan,
                  existingTheme, base, themeID, deployArg, downloadArg,
                  cherryBase, calls >>

\* Cleanup without the quick-test check
Cleanup_IgnoresQuickTest ==
  /\ pc = "cleanup"
  /\ pc' = "cleaning"
  /\ calls' = Append(calls, "rm")
  /\ UNCHANGED << env, parsed, tmpExists, configYml, cwd, prep, gitBranch,
                  listing, branch, themes, commits, fetchErr, cherryErr, plan,
                  existingTheme, base, themeID, deployArg, downloadArg,
                  cherryBase, error >>

\* the last .then: nothing in quick-test mode, else `rm -r ${TMP_DIR}`
Cleanup ==
  /\ pc = "cleanup"
  /\ IF IS_QUICK_TEST
       THEN pc' = "done" /\ calls' = calls
       ELSE pc' = "cleaning" /\ calls' = Append(calls, "rm")
  /\ UNCHANGED << env, parsed, tmpExists, configYml, cwd, prep, gitBranch,
                  listing, branch, themes, commits, fetchErr, cherryErr, plan,
                  existingTheme, base, themeID, deployArg, downloadArg,
                  cherryBase, error >>

\* callback of the final exec(`rm -r ${TMP_DIR}`)
CleanupDone ==
  /\ pc = "cleaning"
  /\ \E err \in BOOLEAN :
       IF err THEN Reject("rm") /\ UNCHANGED << tmpExists, configYml >>
              ELSE /\ pc' = "done"
                   /\ tmpExists' = FALSE
                   /\ configYml' = 0
                   /\ error' = error
  /\ UNCHANGED << env, parsed, cwd, prep, gitBranch, listing, branch, themes,
                  commits, fetchErr, cherryErr, plan, existingTheme, base,
                  themeID, deployArg, downloadArg, cherryBase, calls >>

-----------------------------------------------------------------------------
(* Specification *)

Next ==
  \/ Start
  \/ RmDone
  \/ PrepThen
  \/ GitBranchDone
  \/ RequestDone
  \/ JoinReject
  \/ JoinResolve
  \/ FetchDone
  \/ CherryDone
  \/ MainRoutine
  \/ DuplicateCurrentBase
  \/ DownloadDone
  \/ UploadBaseToNewTheme
  \/ CreateDone
  \/ ReadConfig
  \/ BuildAndDeploy
  \/ DeployDone
  \/ Cleanup
  \/ CleanupDone

Spec == Init /\ [][Next]_vars

TypeOK ==
  /\ pc \in { "start", "join", "fetching", "cherry", "main", "duplicate",
              "downloading", "upload", "creating", "readConfig", "deploy",
              "deploying", "cleanup", "cleaning", "done", "rejected",
              "exited" }
  /\ plan \in { "", "A", "backup", "deploy", "none" }
  /\ Len(themes) <= MaxThemes

-----------------------------------------------------------------------------
(* The name parsing of the reducer, followed on one theme name *)

\* the parts theme names are put together from
NameEnvs == { "STAGE", "STAGING", "LIVE", "DEV", "stage" }
NameLabels == { "fix-bug", "label", "wip - fix", "" }
NameHashes == { "", " (abc123)", " (a1)", " (", "(b2) old" }

\* theme names with and without separator, label and parenthesized commit
ThemeNames ==
  NameEnvs \cup
  { e \o " - " \o l \o h : e \in NameEnvs, l \in NameLabels, h \in NameHashes }

\* the reducer is entered with the name of a theme
ParseInit ==
  /\ STAGE = "backup"
  /\ IS_QUICK_TEST = FALSE
  /\ BASE_THEME = ""
  /\ tmpExists = FALSE
  /\ configYml = 0
  /\ cwd = "root"
  /\ prep = "idle"
  /\ gitBranch = "idle"
  /\ listing = "idle"
  /\ branch = ""
  /\ themes = <<>>
  /\ commits = <<>>
  /\ pc = "start"
  /\ fetchErr = FALSE
  /\ cherryErr = FALSE
  /\ plan = ""
  /\ existingTheme = NoTheme
  /\ base = NoTheme
  /\ themeID = NoValue
  /\ deployArg = NoValue
  /\ downloadArg = 0
  /\ cherryBase = ""
  /\ error = ""
  /\ calls = <<>>
  /\ \E n \in ThemeNames :
       parsed = [name |-> n, status |-> "pending", env |-> "", commit |-> ""]

\* let [env = 'DEV', commit = ''] = name.split(' - ')
SplitName ==
  /\ parsed.status = "pending"
  /\ parsed' = [parsed EXCEPT !.status = "split",
                              !.env = envOf(parsed.name),
                              !.commit = commitPart(parsed.name)]
  /\ UNCHANGED << env, tmpExists, configYml, cwd, prep, gitBranch, listing,
                  branch, themes, commits, pc, fetchErr, cherryErr, plan,
                  existingTheme, base, themeID, deployArg, downloadArg,
                  cherryBase, error, calls >>

\* if (~commit.indexOf('(')) commit = commit.match(/.*[(](.*)[)]/)[1]
MatchCommit ==
  /\ parsed.status = "split"
  /\ LET commit == commitOf(parsed.name)
     IN  parsed' = [parsed EXCEPT !.status = commit.status,
                                  !.commit = IF commit.status = "ok"
                                               THEN commit.token
                                               ELSE parsed.commit]
  /\ UNCHANGED << env, tmpExists, configYml, cwd, prep, gitBranch, listing,
                  branch, themes, commits, pc, fetchErr, cherryErr, plan,
                  existingTheme, base, themeID, deployArg, downloadArg,
                  cherryBase, error, calls >>

ParseNext ==
  \/ SplitName
  \/ MatchCommit

ParseSpec == ParseInit /\ [][ParseNext]_vars

-----------------------------------------------------------------------------
(* Properties *)

Has(op) == \E i \in 1..Len(calls) : calls[i] = op

Count(op) == Cardinality({ i \in 1..Len(calls) : calls[i] = op })

\* every b in the log has an a before it
Precedes(a, b) ==
  \A j \in 1..Len(calls) :
     calls[j] = b => \E i \in 1..(j - 1) : calls[i] = a

\* the final .then has been reached or passed without a rejection
Completed == pc \in { "cleanup", "cleaning", "done" }

MainThemes == { t \in Range(themes) : t.role = "main" }

\* the environment tag of a theme is live or stage
IsLiveOrStage(t) == ToLower(envOf(t.name)) \in { "live", "stage" }

\* the environment tag of a theme is staging or stage
IsStaging(t) == ToLower(envOf(t.name)) \in { "staging", "stage" }

\* the commit token of a theme is part of an entry of the commit list
TokenMatches(t) ==
  LET commit == commitOf(t.name)
  IN  /\ commit.status = "ok"
      /\ \E i \in 1..Len(commits) : Includes(commits[i], commit.token)

AgeDays(t) == Now - t.updated_at

\* the run is on a branch classified as master, in the given mode
MasterRun(stage) ==
  /\ plan # ""
  /\ isMaster(branch) /\ ~isPathA(branch)
  /\ STAGE = stage

\* C1 (as stated): on Path A the deploy trigger is invoked exactly once per
\* successful run; with an existing staging theme the target is its id and
\* nothing is downloaded or created; with none, base selection, download and
\* creation all precede the deploy and the target is the new theme's id.
C1_PathA_AsStated ==
  plan = "A" =>
    /\ Count("deploy") <= 1
    /\ pc = "done" => Count("deploy") = 1
    /\ existingTheme # NoTheme =>
         /\ ~Has("download") /\ ~Has("new")
         /\ Has("deploy") => deployArg = IdValue(existingTheme.id)
    /\ (existingTheme = NoTheme /\ Has("deploy")) =>
         /\ Precedes("getBase", "deploy")
         /\ Precedes("download", "deploy")
         /\ Precedes("new", "deploy")
         /\ deployArg = IdValue(NewThemeId)
         /\ deployArg.id # base.id

\* C1 (amended): as C1, except that in quick-test mode the fall-through
\* issues neither the download nor the creation command and the deploy
\* target is the theme_id already in the scratch config.yml; outside
\* quick-test mode download and creation precede the deploy and the target
\* is the id of the theme just created.
C1_PathA ==
  plan = "A" =>
    /\ Count("deploy") <= 1
    /\ pc = "done" => Count("deploy") = 1
    /\ existingTheme # NoTheme =>
         /\ ~Has("download") /\ ~Has("new")
         /\ Has("deploy") => deployArg = IdValue(existingTheme.id)
    /\ (existingTheme = NoTheme /\ Has("deploy")) =>
         /\ Precedes("getBase", "deploy")
         /\ Precedes("downloadTheme", "deploy")
         /\ Precedes("uploadBaseToNewTheme", "deploy")
         /\ IF IS_QUICK_TEST
              THEN /\ ~Has("download") /\ ~Has("new")
                   /\ deployArg = IdValue(configYml)
              ELSE /\ Precedes("download", "new")
                   /\ Precedes("new", "deploy")
                   /\ deployArg = IdValue(NewThemeId)
                   /\ deployArg.id # base.id

\* C1 witness: a Path A run without an existing staging theme has finished
\* after duplicating the base and deploying to the new theme
C1_Witness ==
  /\ pc = "done" /\ plan = "A" /\ existingTheme = NoTheme
  /\ ~IS_QUICK_TEST
  /\ Has("new") /\ deployArg = IdValue(NewThemeId)

C3_MasterDeployTarget ==
  (MasterRun("deploy") /\ BASE_THEME = "" /\ Has("deploy")) =>
    \E t \in MainThemes : deployArg = IdValue(t.id)

\* C4 (as stated): with BASE_THEME set to the id of a listed theme, base
\* selection yields that theme whatever the roles and tags, and its callers
\* go on with it.
C4_ExplicitBase ==
  ( /\ BASE_THEME # ""
    /\ \E t \in Range(themes) : NumStr(t.id) = BASE_THEME
    /\ Has("getBase") ) =>
    /\ error # "TypeError"
    /\ plan \in { "A", "backup" } =>
         /\ NumStr(base.id) = BASE_THEME
         /\ ~IS_QUICK_TEST => NumStr(downloadArg) = BASE_THEME
    /\ plan = "deploy" => NumStr(themeID.id) = BASE_THEME

\* C5: without BASE_THEME the base is the main theme when forcePublished is
\* requested or when the main theme's tag is live or stage; otherwise it is
\* the first theme of the list, which is the most recently updated one,
\* whose tag is live or stage.
C5_BaseSelection ==
  (BASE_THEME = "" /\ Has("getBase") /\ MainThemes # {}) =>
    LET m == CHOOSE t \in MainThemes : TRUE
        cands == { i \in 1..Len(themes) : IsLiveOrStage(themes[i]) }
    IN  /\ plan = "backup" => base = m
        /\ plan = "deploy" => themeID.id = m.id
        /\ plan = "A" =>
             IF IsLiveOrStage(m) THEN base = m
             ELSE IF cands = {} THEN pc = "exited"
             ELSE /\ \E i \in cands :
                       /\ base = themes[i]
                       /\ \A j \in cands : i <= j
                  /\ \A j \in cands : themes[j].updated_at <= base.updated_at
                  /\ base \notin MainThemes

\* C5 witness: the main theme is a DEV theme, two other themes are live or
\* stage, and the base selected is not the published one
C5_Witness ==
  /\ BASE_THEME = "" /\ plan = "A" /\ Has("getBase")
  /\ \E m \in MainThemes : ~IsLiveOrStage(m)
  /\ Cardinality({ t \in Range(themes) : IsLiveOrStage(t) }) >= 2
  /\ base # NoTheme /\ base.role # "main"

\* C6: on a branch containing 'develop' a matching staging theme is taken
\* as the existing target only if it was updated within the last 7 days (8
\* days or more: rejected, the run falls through to duplication; 6 days:
\* accepted); on feature, hotfix and bugfix branches without 'develop' the
\* age never rejects a matching staging theme.
C6_DevelopStaleness ==
  plan = "A" =>
    /\ Includes(branch, "develop") =>
         /\ existingTheme # NoTheme => AgeDays(existingTheme) < 8
         /\ (\E t \in Range(themes) :
               IsStaging(t) /\ TokenMatches(t) /\ AgeDays(t) <= 6)
              => existingTheme # NoTheme
         /\ (\A t \in Range(themes) :
               (IsStaging(t) /\ TokenMatches(t)) => AgeDays(t) >= 8)
              => /\ existingTheme = NoTheme
                 /\ pc = "duplicate" \/ Has("getBase")
    /\ ( /\ TestAnyI(branch, {"feature", "hotfix", "bugfix"})
         /\ ~Includes(branch, "develop") ) =>
         ((\E t \in Range(themes) : IsStaging(t) /\ TokenMatches(t))
            => existingTheme # NoTheme)

\* C6 witness: on develop the only matching staging theme is 8 days old and
\* the run has gone on to base selection
C6_Witness ==
  /\ branch = "develop" /\ plan = "A"
  /\ \E t \in Range(themes) :
       IsStaging(t) /\ TokenMatches(t) /\ AgeDays(t) >= 8
  /\ existingTheme = NoTheme /\ Has("getBase")

\* C7 (as stated): the theme isAlreadyDeployedThemeForBranch selects has a
\* staging or stage tag and a commit hash in parentheses in its name, and
\* that hash is part of an entry of the commit list.
C7_HashRequired ==
  existingTheme # NoTheme =>
    /\ IsStaging(existingTheme)
    /\ Includes(commitPart(existingTheme.name), "(")
    /\ TokenMatches(existingTheme)

\* the final `rm -r` of the scratch directory has been issued
CleanupRan ==
  \E i \in 1..Len(calls) :
     calls[i] = "rm" /\ \E j \in 1..(i - 1) : calls[j] = "git cherry"

\* C8 (as stated): outside quick-test mode the scratch directory is removed
\* at the end of every run that reached the planner, whether the deploy or
\* the duplication step succeeded or failed.
C8_CleanupAlways ==
  ( /\ ~IS_QUICK_TEST
    /\ plan # ""
    /\ \/ pc = "done"
       \/ /\ pc = "rejected"
          /\ error \in { "deploy", "Themekit download failed",
                         "themekit new" } ) =>
    CleanupRan

\* C9 (as stated): after a failure of git branch, git fetch --all or
\* git cherry -v the planner never runs and nothing is downloaded, created
\* or deployed.
C9_GitFailureAborts ==
  (gitBranch = "rejected" \/ fetchErr \/ cherryErr) =>
    /\ plan = ""
    /\ ~Has("download") /\ ~Has("new") /\ ~Has("deploy")

\* C10: in quick-test mode the run never issues the theme download, the
\* theme creation or an rm of the scratch directory, while the main routine
\* still classifies the branch and looks for an existing theme or selects a
\* base.
C10_QuickTest ==
  IS_QUICK_TEST =>
    /\ ~Has("download") /\ ~Has("new") /\ ~Has("rm")
    /\ pc \notin { "downloading", "creating", "cleaning" }
    /\ Completed =>
         /\ plan # ""
         /\ plan = "A" <=> isPathA(branch)
         /\ plan = "A" => Has("isAlreadyDeployedThemeForBranch")
         /\ (plan = "backup" \/ (plan = "A" /\ existingTheme = NoTheme))
              => Has("getBase")

\* C10 witness: a quick-test run on Path A has finished after base selection
C10_Witness ==
  /\ IS_QUICK_TEST /\ pc = "done"
  /\ plan = "A" /\ existingTheme = NoTheme /\ Has("getBase")

NoFallbackBase ==
  /\ BASE_THEME = ""
  /\ plan = "A"
  /\ MainThemes # {}
  /\ \A t \in Range(themes) : ~IsLiveOrStage(t)

\* C12: when base selection is entered with no explicit base id, without
\* forcePublished, with a main theme tagged neither live nor stage and no
\* theme tagged live or stage, the process ends inside base selection: the
\* call of getBase is the last thing the run does, and no download, theme
\* creation, deploy or removal of the scratch directory follows.
C12_FatalBaseSelection ==
  (NoFallbackBase /\ Has("getBase")) =>
    /\ pc = "exited"
    /\ calls[Len(calls)] = "getBase"
    /\ error = ""
    /\ ~Has("downloadTheme") /\ ~Has("download")
    /\ ~Has("uploadBaseToNewTheme") /\ ~Has("new")
    /\ ~Has("readConfig") /\ ~Has("deploy")
    /\ ~CleanupRan

\* C12 witness: the process has ended inside base selection on a list that
\* holds a main theme and a staging theme, none of them tagged live or stage
C12_Witness ==
  /\ pc = "exited"
  /\ NoFallbackBase /\ Has("getBase")
  /\ \E t \in Range(themes) : t.role # "main"

\* the branch name contains "develop" in some letter case
NamesDevelop(b) == Includes(ToLower(b), "develop")

\* C13: a branch whose name contains "develop" in any letter case is treated
\* as the develop branch everywhere: the planner takes Path A, an existing
\* staging theme is used only if it is at most seven days old, and git cherry
\* is given the base that the branch develop is given.
C13_CaseInsensitive ==
  NamesDevelop(branch) =>
    /\ plan # "" => plan = "A"
    /\ existingTheme # NoTheme => AgeDays(existingTheme) <= StaleDays
    /\ cherryBase # "" => cherryBase = gitBase("develop")

\* C14 (as stated): git cherry is run against master unless the current
\* branch matches develop, and against develop when it does.
C14_CherryBase_AsStated ==
  cherryBase # "" =>
    cherryBase = IF Includes(branch, "develop") THEN "develop" ELSE "master"

\* C14 (amended): git cherry is run against develop unless the name of the
\* current branch contains "develop" in lower case, and against master when
\* it does; the command is issued with that base once git fetch has returned.
C14_CherryBase ==
  /\ Has("git cherry") <=> cherryBase # ""
  /\ cherryBase # "" =>
       /\ cherryBase \in { "master", "develop" }
       /\ cherryBase = "master" <=> Includes(branch, "develop")
       /\ branch \in { "develop", "bugfix/develop-y" } => cherryBase = "master"
       /\ branch \in { "feature/x", "hotfix/master-x", "master", "release",
                       "Develop" } => cherryBase = "develop"

\* C14 witness: the commits of the branch develop have been listed against
\* master
C14_Witness ==
  /\ branch = "develop" /\ cherryBase = "master"
  /\ Has("git cherry") /\ pc = "main"

\* the theme passes the tests of the search for an existing staging theme
\* of the current branch
Qualifies(t) ==
  /\ IsStaging(t)
  /\ TokenMatches(t)
  /\ isDevelop(branch) => AgeDays(t) <= StaleDays

\* C15: the theme list is in descending order of updated_at, and the
\* existing staging theme selected on Path A is the first qualifying theme
\* of that order, so no qualifying theme has a greater updated_at.
C15_MostRecentQualifying ==
  /\ \A i, j \in 1..Len(themes) :
       i < j => themes[i].updated_at >= themes[j].updated_at
  /\ (plan = "A" /\ existingTheme # NoTheme) =>
       /\ existingTheme \in Range(themes)
       /\ Qualifies(existingTheme)
       /\ \A t \in Range(themes) :
            Qualifies(t) => t.updated_at <= existingTheme.updated_at
       /\ \E k \in 1..Len(themes) :
            /\ themes[k] = existingTheme
            /\ \A i \in 1..(k - 1) : ~Qualifies(themes[i])

\* C15 witness: a staging theme has been selected while an older theme of
\* the list qualifies as well
C15_Witness ==
  /\ plan = "A" /\ existingTheme # NoTheme
  /\ \E t \in Range(themes) :
       /\ Qualifies(t)
       /\ t.updated_at < existingTheme.updated_at

\* one of the three concurrent operations has failed
JoinFailed == "rejected" \in { prep, gitBranch, listing }

\* C16: git fetch, git cherry and the planner start only after workspace
\* preparation, branch detection and theme listing have all succeeded, in
\* whatever order they finish; when one of the three fails, git fetch, git
\* cherry, the planner, download, theme creation, deploy and the final
\* cleanup never run.
C16_FanInJoin ==
  /\ (Has("git fetch") \/ Has("git cherry") \/ plan # "") =>
       /\ prep = "resolved" /\ gitBranch = "resolved" /\ listing = "resolved"
       /\ Has("git fetch")
       /\ Precedes("chdir", "git fetch")
       /\ Precedes("git fetch", "git cherry")
  /\ JoinFailed =>
       /\ pc \in { "join", "rejected" }
       /\ ~Has("git fetch") /\ ~Has("git cherry")
       /\ plan = "" /\ ~Has("isAlreadyDeployedThemeForBranch")
       /\ ~Has("getBase") /\ ~Has("downloadTheme") /\ ~Has("download")
       /\ ~Has("uploadBaseToNewTheme") /\ ~Has("new")
       /\ ~Has("deploy")
       /\ ~CleanupRan

\* C16 witness: the run has been rejected at the join by a failed theme
\* request after the other two operations had succeeded
C16_Witness ==
  /\ pc = "rejected" /\ error = "join"
  /\ listing = "rejected"
  /\ prep = "resolved" /\ gitBranch = "resolved"

\* C17: the name "STAGE - fix-bug (abc123)" is parsed into the environment
\* tag "STAGE" and the commit token "abc123", and a name without a
\* parenthesized segment, such as "STAGE - fix-bug", into an empty commit
\* token.
C17_NameParsing ==
  parsed.status = "ok" =>
    /\ parsed.name = "STAGE - fix-bug (abc123)" =>
         parsed.env = "STAGE" /\ parsed.commit = "abc123"
    /\ ~Includes(parsed.name, "(") => parsed.commit = ""

WordsIn(b, words) ==
  LET low == ToLower(b)
  IN  { w \in words : Includes(low, w) }

\* C19: on a branch that matches none of feature, hotfix, bugfix, develop
\* and master, and on a master branch (matching none of the Path A words)
\* with STAGE neither backup nor deploy, the planner selects no base,
\* downloads nothing, creates no theme and deploys nothing; a branch that
\* matches both master and a Path A word takes Path A, never a master path.
C19_NoAction ==
  plan # "" =>
    LET found == WordsIn(branch, { "feature", "hotfix", "bugfix", "develop",
                                   "master" })
        pathA == found \ { "master" } # {}
        master == "master" \in found
    IN  /\ (~pathA /\ (~master \/ STAGE \notin { "backup", "deploy" }))
           => /\ plan = "none"
              /\ ~Has("isAlreadyDeployedThemeForBranch") /\ ~Has("getBase")
              /\ ~Has("downloadTheme") /\ ~Has("download")
              /\ ~Has("uploadBaseToNewTheme") /\ ~Has("new")
              /\ ~Has("readConfig") /\ ~Has("deploy")
              /\ themeID = NoValue /\ deployArg = NoValue
        /\ (pathA /\ master) => plan = "A"
        /\ plan = "none" => ~pathA

\* C19 witness: a run on master with a STAGE other than backup and deploy
\* has finished without the planner taking any action
C19_Witness ==
  /\ plan = "none" /\ pc = "done"
  /\ branch = "master" /\ STAGE = "other"
  /\ ~Has("getBase") /\ ~Has("deploy")

\* C20: once git fetch --all has failed, git cherry is never executed in
\* that run, and the rejected step never hands a commit list on to the
\* planner.
C20_NoCherryAfterFailedFetch ==
  fetchErr =>
    /\ ~Has("git cherry")
    /\ cherryBase = ""
    /\ plan = "" /\ pc \notin { "cherry", "main" }

====
